---- MODULE Spec2Model ----
(***************************************************************************)
(* Model of src/app.py: the account service (users table, legacy import,   *)
(* signup, login, logout, session check) and the document manager          *)
(* (documents table, upload folder, upload, delete).                       *)
(*                                                                         *)
(* Strings are sequences of characters.  An optional value (Python None /  *)
(* SQL NULL) is the empty tuple, a present value s is the 1-tuple <<s>>.    *)
(***************************************************************************)
EXTENDS Integers, Sequences, FiniteSets, TLC

\* ------------------------------------------------------------------------
\* Strings
\* ------------------------------------------------------------------------
None == << >>
Some(s) == << s >>

\* U+00C9 / U+00E9: a non-ASCII letter pair
E_ACUTE_UPPER == "U+00C9"
E_ACUTE_LOWER == "U+00E9"

Whitespace == {" "}

\* str.lower() of Python: Unicode aware
PyLowerChar(c) ==
    CASE c = "A" -> "a"
      [] c = "B" -> "b"
      [] c = "P" -> "p"
      [] c = "D" -> "d"
      [] c = "F" -> "f"
      [] c = E_ACUTE_UPPER -> E_ACUTE_LOWER
      [] OTHER -> c

\* lower() of SQLite: folds ASCII letters only
SqlLowerChar(c) ==
    CASE c = "A" -> "a"
      [] c = "B" -> "b"
      [] c = "P" -> "p"
      [] c = "D" -> "d"
      [] c = "F" -> "f"
      [] OTHER -> c

PyLower(s) == [i \in 1..Len(s) |-> PyLowerChar(s[i])]
SqlLower(s) == [i \in 1..Len(s) |-> SqlLowerChar(s[i])]

RECURSIVE LStrip(_)
LStrip(s) == IF s # << >> /\ Head(s) \in Whitespace THEN LStrip(Tail(s)) ELSE s

RECURSIVE RStrip(_)
RStrip(s) ==
    IF s # << >> /\ s[Len(s)] \in Whitespace
    THEN RStrip(SubSeq(s, 1, Len(s) - 1))
    ELSE s

\* str.strip()
Strip(s) == RStrip(LStrip(s))

\* ------------------------------------------------------------------------
\* State
\* ------------------------------------------------------------------------
VARIABLES
    users,      \* committed rows of table users
    dbLock,     \* the import's open write transaction holds the database
    txRows,     \* rows inserted by the open transaction, not yet committed
    legacy,     \* content of users.json, in file order
    migPc,      \* position of migrate_users_from_json
    migIdx,     \* next entry of the legacy mapping to insert
    sg,         \* signup requests in flight, one per handler slot
    session,    \* session["user"] of the client
    cl,         \* the client's login / logout / session request and response
    docs,       \* rows of table document
    files,      \* file names present in the upload folder
    docResp,    \* response of the last document request
    mailEnv,    \* mail settings of the process environment
    mail,       \* the send-email request in the handler and its response
    smtpConns,  \* SMTP connections attempted so far
    outbox      \* messages the SMTP relay accepted, in order

authVars == <<users, dbLock, txRows, legacy, migPc, migIdx, sg, session, cl>>
docVars == <<docs, files, docResp>>
mailVars == <<mailEnv, mail, smtpConns, outbox>>
vars == <<users, dbLock, txRows, legacy, migPc, migIdx, sg, session, cl,
          docs, files, docResp, mailEnv, mail, smtpConns, outbox>>

\* ------------------------------------------------------------------------
\* Table users (init_db): username TEXT UNIQUE NOT NULL, email TEXT UNIQUE.
\* Both constraints compare with SQLite's default BINARY collation, and a
\* NULL email never conflicts.
\* ------------------------------------------------------------------------
Viewer == <<"V", "i", "e", "w", "e", "r">>

\* a stored password text: the output of generate_password_hash for a
\* plaintext (the salt is abstracted), or some other text
PlainText(t) == [hashed |-> FALSE, text |-> t]

generate_password_hash(password) == [hashed |-> TRUE, text |-> password]

check_password_hash(pwhash, password) == pwhash.hashed /\ pwhash.text = password

UserRow(username, password, full_name, email, role) ==
    [username |-> username, password |-> password, full_name |-> full_name,
     email |-> email, role |-> role]

\* as UniqueViolation, had the email column no UNIQUE constraint
UniqueViolationUsernameOnly(table, row) ==
    \E u \in table : u.username = row.username

\* the INSERT raises sqlite3.IntegrityError
UniqueViolation(table, row) ==
    \E u \in table :
        \/ u.username = row.username
        \/ row.email # None /\ u.email = row.email

\* SELECT ... WHERE username = ?   (all matching rows)
SelectByUsername(table, username) == {u \in table : u.username = username}

\* SELECT ... WHERE lower(email) = ?   with the parameter lowered by Python
SelectByLowerEmail(table, email) ==
    {u \in table : u.email # None /\ SqlLower(u.email[1]) = PyLower(email)}

get_user_by_username(username) == SelectByUsername(users, username)

get_user_by_email(email) == SelectByLowerEmail(users, email)

\* ------------------------------------------------------------------------
\* Legacy import
\* ------------------------------------------------------------------------
\* an entry of users.json; an absent key is None
LegacyEntry(username, password, full_name, email, role) ==
    [username |-> username, password |-> password, full_name |-> full_name,
     email |-> email, role |-> role]

load_users_from_json(file) ==
    [i \in 1..Len(file) |->
        [username |-> file[i].username,
         password |-> IF file[i].password = None THEN PlainText(<< >>)
                      ELSE file[i].password[1],
         full_name |-> IF file[i].full_name = None THEN file[i].username
                       ELSE file[i].full_name[1],
         email |-> file[i].email,
         role |-> IF file[i].role = None THEN Viewer ELSE file[i].role[1]]]

\* the row one iteration of the import loop inserts
MigrateRow(details) ==
    UserRow(details.username,
            details.password,
            IF details.full_name = << >> THEN details.username ELSE details.full_name,
            details.email,
            IF details.role = << >> THEN Viewer ELSE details.role)

\* as MigrateStart, without the check of existing_count
MigrateStartNoCount ==
    /\ migPc = "start"
    /\ IF load_users_from_json(legacy) = << >>
       THEN migPc' = "done"
       ELSE migPc' = "insert"
    /\ migIdx' = 1
    /\ UNCHANGED <<users, dbLock, txRows, legacy, sg, session, cl, docVars, mailVars>>

\* json_users is read, then COUNT(1) is read outside any transaction
MigrateStart ==
    /\ migPc = "start"
    /\ IF load_users_from_json(legacy) = << >> \/ users # {}
       THEN migPc' = "done"
       ELSE migPc' = "insert"
    /\ migIdx' = 1
    /\ UNCHANGED <<users, dbLock, txRows, legacy, sg, session, cl, docVars, mailVars>>

\* one iteration of the loop; the first INSERT opens the write transaction
MigrateInsert ==
    /\ migPc = "insert"
    /\ migIdx <= Len(legacy)
    /\ LET row == MigrateRow(load_users_from_json(legacy)[migIdx])
       IN  txRows' = IF UniqueViolation(users \cup txRows, row)
                     THEN txRows
                     ELSE txRows \cup {row}
    /\ dbLock' = TRUE
    /\ migIdx' = migIdx + 1
    /\ UNCHANGED <<users, legacy, migPc, sg, session, cl, docVars, mailVars>>

\* conn.commit()
MigrateCommit ==
    /\ migPc = "insert"
    /\ migIdx > Len(legacy)
    /\ users' = users \cup txRows
    /\ txRows' = {}
    /\ dbLock' = FALSE
    /\ migPc' = "done"
    /\ UNCHANGED <<legacy, migIdx, sg, session, cl, docVars, mailVars>>

\* the process is started again: init_db() and migrate_users_from_json()
\* run at import time of the module
Restart ==
    /\ migPc = "done"
    /\ migPc' = "start"
    /\ UNCHANGED <<users, dbLock, txRows, legacy, migIdx, sg, session, cl, docVars, mailVars>>

\* ------------------------------------------------------------------------
\* Responses
\* ------------------------------------------------------------------------
Response(status, msg, data) == [status |-> status, msg |-> msg, data |-> data]

NoResponse == Response(0, "", None)

\* ------------------------------------------------------------------------
\* POST /api/signup
\* ------------------------------------------------------------------------
Slots == {1, 2}

IdleSignup ==
    [pc |-> "idle", username |-> << >>, password |-> << >>, full_name |-> << >>,
     email |-> None, role |-> << >>, resp |-> NoResponse]

SignupFinish(r, resp) == sg' = [sg EXCEPT ![r].pc = "done", ![r].resp = resp]

\* a request reaches a free handler; the fields are those of the JSON payload
\* (a missing key and "" are treated alike by every "or" of the handler)
SignupReceive(r, payload) ==
    /\ sg[r].pc \in {"idle", "done"}
    /\ sg' = [sg EXCEPT ![r] =
                 [pc |-> "recv", username |-> payload.username,
                  password |-> payload.password, full_name |-> payload.full_name,
                  email |-> Some(payload.email), role |-> payload.role,
                  resp |-> NoResponse]]
    /\ UNCHANGED <<users, dbLock, txRows, legacy, migPc, migIdx, session, cl, docVars, mailVars>>

\* as SignupInvalid, without the test of full_name
SignupInvalidNoFullName(username, password, full_name) ==
    username = << >> \/ password = << >>

\* if not username or not password or not full_name
SignupInvalid(username, password, full_name) ==
    username = << >> \/ password = << >> \/ full_name = << >>

\* payload parsing, validation and the username check
SignupStart(r) ==
    /\ sg[r].pc = "recv"
    /\ LET username == Strip(sg[r].username)
           password == sg[r].password
           full_name == Strip(sg[r].full_name)
           email == IF Strip(sg[r].email[1]) = << >> THEN None
                    ELSE Some(Strip(sg[r].email[1]))
           role == IF Strip(IF sg[r].role = << >> THEN Viewer ELSE sg[r].role) = << >>
                   THEN Viewer
                   ELSE Strip(IF sg[r].role = << >> THEN Viewer ELSE sg[r].role)
           req == [pc |-> "chkEmail", username |-> username, password |-> password,
                   full_name |-> full_name, email |-> email, role |-> role,
                   resp |-> NoResponse]
       IN  IF SignupInvalid(username, password, full_name)
           THEN sg' = [sg EXCEPT ![r] =
                    [req EXCEPT !.pc = "done",
                                !.resp = Response(400,
                                    "Username, full name and password are required.",
                                    None)]]
           ELSE IF get_user_by_username(username) # {}
           THEN sg' = [sg EXCEPT ![r] =
                    [req EXCEPT !.pc = "done",
                                !.resp = Response(409, "Username already exists.", None)]]
           ELSE sg' = [sg EXCEPT ![r] = req]
    /\ UNCHANGED <<users, dbLock, txRows, legacy, migPc, migIdx, session, cl, docVars, mailVars>>

\* the email check
SignupCheckEmail(r) ==
    /\ sg[r].pc = "chkEmail"
    /\ IF sg[r].email # None /\ get_user_by_email(sg[r].email[1]) # {}
       THEN SignupFinish(r, Response(409, "Email already in use.", None))
       ELSE sg' = [sg EXCEPT ![r].pc = "create"]
    /\ UNCHANGED <<users, dbLock, txRows, legacy, migPc, migIdx, session, cl, docVars, mailVars>>

\* create_user: INSERT and commit; it waits while another connection holds
\* the write transaction
SignupCreate(r) ==
    /\ sg[r].pc = "create"
    /\ ~dbLock
    /\ LET row == UserRow(sg[r].username, generate_password_hash(sg[r].password),
                          sg[r].full_name, sg[r].email, sg[r].role)
       IN  IF UniqueViolation(users, row)
           THEN /\ SignupFinish(r, Response(500,
                       "Unable to create account. Please try again.", None))
                /\ users' = users
           ELSE /\ SignupFinish(r, Response(201,
                       "Account created successfully. Please sign in.",
                       Some(<<sg[r].username, sg[r].full_name>>)))
                /\ users' = users \cup {row}
    /\ UNCHANGED <<dbLock, txRows, legacy, migPc, migIdx, session, cl, docVars, mailVars>>

\* ------------------------------------------------------------------------
\* Session payload, login, logout, session check (one client, whose requests
\* follow one another; the session is the client's cookie)
\* ------------------------------------------------------------------------
Unauthenticated ==
    [authenticated |-> FALSE, username |-> None, display_name |-> None,
     role |-> None, email |-> None]

Authenticated(username, user) ==
    [authenticated |-> TRUE,
     username |-> Some(username),
     display_name |-> Some(IF user.full_name = << >> THEN username ELSE user.full_name),
     role |-> Some(user.role),
     email |-> user.email]

\* get_session_payload: the payloads it may return (one per row fetchone may
\* return) and the session it leaves
SessionPayloads(sess, table) ==
    IF sess = None \/ sess[1] = << >>
    THEN {Unauthenticated}
    ELSE IF SelectByUsername(table, sess[1]) = {}
    THEN {Unauthenticated}
    ELSE {Authenticated(sess[1], user) : user \in SelectByUsername(table, sess[1])}

\* as SessionAfterPayload, without session.pop("user", None)
SessionAfterPayloadKeeps(sess, table) == sess

SessionAfterPayload(sess, table) ==
    IF sess = None \/ sess[1] = << >>
    THEN sess
    ELSE IF SelectByUsername(table, sess[1]) = {}
    THEN None
    ELSE sess

\* the response is built on req, the request being answered
get_session_payload(req) ==
    /\ \E payload \in SessionPayloads(session, users) :
           cl' = [req EXCEPT !.pc = "idle", !.resp = Response(200, "", Some(payload))]
    /\ session' = SessionAfterPayload(session, users)

IdleClient ==
    [pc |-> "idle", op |-> "", ident |-> << >>, password |-> << >>,
     resp |-> NoResponse]

\* the client sends a request once the previous one is answered;
\* op is "login", "logout" or "session"
ClientRequest(op, payload) ==
    /\ cl.pc = "idle"
    /\ cl' = [pc |-> op, op |-> op, ident |-> payload.username,
              password |-> payload.password, resp |-> NoResponse]
    /\ UNCHANGED <<users, dbLock, txRows, legacy, migPc, migIdx, sg, session, docVars, mailVars>>

NoPayload == [username |-> << >>, password |-> << >>]

InvalidLogin == Response(401, "Invalid username or password.", None)

\* as LoginVerify, with a message of its own for a wrong password
LoginVerifyTellsWrongPassword(req, user) ==
    IF ~check_password_hash(user.password, req.password)
    THEN /\ cl' = [req EXCEPT !.pc = "idle",
                       !.resp = Response(401, "Wrong password.", None)]
         /\ session' = session
    ELSE /\ cl' = [req EXCEPT !.pc = "payload"]
         /\ session' = Some(user.username)

\* as LoginVerify, binding the session to the identifier as typed
LoginVerifyBindsIdentifier(req, user) ==
    IF ~check_password_hash(user.password, req.password)
    THEN /\ cl' = [req EXCEPT !.pc = "idle", !.resp = InvalidLogin]
         /\ session' = session
    ELSE /\ cl' = [req EXCEPT !.pc = "payload"]
         /\ session' = Some(req.ident)

\* the password check of login on the row lookup_user returned
LoginVerify(req, user) ==
    IF ~check_password_hash(user.password, req.password)
    THEN /\ cl' = [req EXCEPT !.pc = "idle", !.resp = InvalidLogin]
         /\ session' = session
    ELSE /\ cl' = [req EXCEPT !.pc = "payload"]
         /\ session' = Some(user.username)

\* POST /api/login: payload parsing, validation and the first SELECT of
\* lookup_user
LoginStart ==
    /\ cl.pc = "login"
    /\ LET login_identifier == Strip(cl.ident)
           req == [cl EXCEPT !.pc = "lookupEmail", !.ident = login_identifier]
       IN  IF login_identifier = << >> \/ cl.password = << >>
           THEN /\ cl' = [req EXCEPT !.pc = "idle",
                              !.resp = Response(400,
                                  "Both username and password are required.", None)]
                /\ session' = session
           ELSE IF SelectByUsername(users, login_identifier) # {}
           THEN \E user \in SelectByUsername(users, login_identifier) :
                    LoginVerify(req, user)
           ELSE /\ cl' = req
                /\ session' = session
    /\ UNCHANGED <<users, dbLock, txRows, legacy, migPc, migIdx, sg, docVars, mailVars>>

\* the second SELECT of lookup_user
LoginLookupEmail ==
    /\ cl.pc = "lookupEmail"
    /\ IF SelectByLowerEmail(users, cl.ident) # {}
       THEN \E user \in SelectByLowerEmail(users, cl.ident) : LoginVerify(cl, user)
       ELSE /\ cl' = [cl EXCEPT !.pc = "idle", !.resp = InvalidLogin]
            /\ session' = session
    /\ UNCHANGED <<users, dbLock, txRows, legacy, migPc, migIdx, sg, docVars, mailVars>>

\* return jsonify(get_session_payload()) of login
LoginPayload ==
    /\ cl.pc = "payload"
    /\ get_session_payload(cl)
    /\ UNCHANGED <<users, dbLock, txRows, legacy, migPc, migIdx, sg, docVars, mailVars>>

\* as Logout, without session.pop("user", None)
LogoutKeepsSession ==
    /\ cl.pc = "logout"
    /\ session' = session
    /\ cl' = [cl EXCEPT !.pc = "idle", !.resp = Response(200, "success", None)]
    /\ UNCHANGED <<users, dbLock, txRows, legacy, migPc, migIdx, sg, docVars, mailVars>>

\* POST /api/logout
Logout ==
    /\ cl.pc = "logout"
    /\ session' = None
    /\ cl' = [cl EXCEPT !.pc = "idle", !.resp = Response(200, "success", None)]
    /\ UNCHANGED <<users, dbLock, txRows, legacy, migPc, migIdx, sg, docVars, mailVars>>

\* GET /api/session
SessionInfo ==
    /\ cl.pc = "session"
    /\ get_session_payload(cl)
    /\ UNCHANGED <<users, dbLock, txRows, legacy, migPc, migIdx, sg, docVars, mailVars>>

\* a row of users is removed by something other than the handlers
OutOfBandDelete ==
    /\ ~dbLock
    /\ \E u \in users : users' = users \ {u}
    /\ UNCHANGED <<dbLock, txRows, legacy, migPc, migIdx, sg, session, cl, docVars, mailVars>>

\* ------------------------------------------------------------------------
\* Document manager
\* ------------------------------------------------------------------------
MaxDocs == 2

ALLOWED_EXTENSIONS ==
    {<<"p", "d", "f">>, <<"d", "o", "c">>, <<"d", "o", "c", "x">>,
     <<"j", "p", "g">>, <<"j", "p", "e", "g">>, <<"p", "n", "g">>}

\* position of the last "." of s, 0 if there is none
LastDot(s) ==
    IF \E i \in 1..Len(s) : s[i] = "."
    THEN CHOOSE i \in 1..Len(s) : s[i] = "." /\ \A j \in (i + 1)..Len(s) : s[j] # "."
    ELSE 0

allowed_file(filename) ==
    /\ LastDot(filename) # 0
    /\ PyLower(SubSeq(filename, LastDot(filename) + 1, Len(filename)))
           \in ALLOWED_EXTENSIONS

\* werkzeug's secure_filename on ASCII names: path separators become
\* blanks, blank-separated parts are joined by "_", characters outside
\* [A-Za-z0-9_.-] are dropped, leading and trailing "." and "_" are stripped
SafeChars ==
    {"a", "b", "c", "d", "e", "f", "g", "j", "n", "o", "p", "r", "x",
     "A", "B", "D", "F", "P", "_", ".", "-"}

RECURSIVE JoinParts(_, _)
JoinParts(s, pendingBlank) ==
    IF s = << >> THEN << >>
    ELSE IF Head(s) \in Whitespace THEN JoinParts(Tail(s), TRUE)
    ELSE (IF pendingBlank THEN <<"_">> ELSE << >>) \o <<Head(s)>>
             \o JoinParts(Tail(s), FALSE)

RECURSIVE StripChars(_, _)
StripChars(s, cs) ==
    IF s # << >> /\ Head(s) \in cs THEN StripChars(Tail(s), cs)
    ELSE IF s # << >> /\ s[Len(s)] \in cs THEN StripChars(SubSeq(s, 1, Len(s) - 1), cs)
    ELSE s

secure_filename(filename) ==
    LET blanks == [i \in 1..Len(filename) |->
                      IF filename[i] = "/" THEN " " ELSE filename[i]]
        joined == JoinParts(Strip(blanks), FALSE)
        kept == SelectSeq(joined, LAMBDA c : c \in SafeChars)
    IN  StripChars(kept, {".", "_"})

\* INTEGER PRIMARY KEY without AUTOINCREMENT: one more than the largest id
NewDocId(table) ==
    IF table = {} THEN 1
    ELSE 1 + (CHOOSE m \in {d.id : d \in table} : \A d \in table : d.id <= m)

DocResponse(op, id, status, flash) ==
    [op |-> op, id |-> id, status |-> status, flash |-> flash]

\* POST /upload; file is None when the form has no file part, and
\* department None when the form has no department field
Upload(file, department) ==
    /\ (file # None /\ file[1] # << >> /\ allowed_file(file[1]) /\ department # None)
           => Cardinality(docs) < MaxDocs
    /\ IF file = None \/ file[1] = << >>
       THEN /\ docResp' = DocResponse("upload", 0, 302, "No file selected")
            /\ UNCHANGED <<docs, files>>
       ELSE IF ~allowed_file(file[1])
       THEN /\ docResp' = DocResponse("upload", 0, 302,
                              "Invalid file type. Allowed: pdf, doc, docx, jpg, png")
            /\ UNCHANGED <<docs, files>>
       ELSE /\ files' = files \cup {secure_filename(file[1])}
            /\ IF department = None
               THEN \* NOT NULL fails at commit: the handler raises
                    /\ docResp' = DocResponse("upload", 0, 500, "")
                    /\ docs' = docs
               ELSE /\ docs' = docs \cup
                          {[id |-> NewDocId(docs),
                            filename |-> secure_filename(file[1]),
                            department |-> department[1]]}
                    /\ docResp' = DocResponse("upload", NewDocId(docs), 302,
                                      "File uploaded successfully!")
    /\ UNCHANGED <<authVars, mailVars>>

\* GET /delete/<doc_id>; removeFails: os.remove raises an OSError other than
\* FileNotFoundError (no permission, the name is a directory, ...)
Delete(doc_id, removeFails) ==
    /\ IF \A d \in docs : d.id # doc_id
       THEN /\ docResp' = DocResponse("delete", doc_id, 404, "")
            /\ UNCHANGED <<docs, files>>
       ELSE LET doc == CHOOSE d \in docs : d.id = doc_id
            IN  IF removeFails
                THEN \* the exception leaves the handler
                     /\ docResp' = DocResponse("delete", doc_id, 500, "")
                     /\ UNCHANGED <<docs, files>>
                ELSE /\ files' = files \ {doc.filename}
                     /\ docs' = docs \ {doc}
                     /\ docResp' = DocResponse("delete", doc_id, 302,
                                       "File deleted successfully!")
    /\ UNCHANGED <<authVars, mailVars>>

\* a file of the upload folder is removed by something other than the handlers
ExternalRemove ==
    /\ \E f \in files : files' = files \ {f}
    /\ UNCHANGED <<docs, docResp>>
    /\ UNCHANGED <<authVars, mailVars>>

\* ------------------------------------------------------------------------
\* POST /api/send-email
\* ------------------------------------------------------------------------
MaxMails == 2

DefaultSubject ==
    <<"H", "e", "l", "l", "o", " ", "f", "r", "o", "m", " ", "L", "e", "t", "s",
      " ", "B", "u", "i", "l", "d", " ", "S", "o", "m", "e", "t", "h", "i", "n", "g">>

\* the environment: a variable that is not set is None
MailEnv(from, host, port, user, password, tls) ==
    [from |-> from, host |-> host, port |-> port, user |-> user,
     password |-> password, tls |-> tls]

\* "not x" of an optional string
Falsy(x) == x = None \/ x = Some(<< >>)

Digits == {"0", "1", "2", "3", "4", "5", "6", "7", "8", "9"}

\* int(os.getenv("MAIL_SMTP_PORT", "587")) raises ValueError
PortInvalid(env) ==
    /\ env.port # None
    /\ \/ Strip(env.port[1]) = << >>
       \/ \E i \in 1..Len(Strip(env.port[1])) : Strip(env.port[1])[i] \notin Digits

\* os.getenv("MAIL_USE_TLS", "true").lower() != "false"
use_tls(env) ==
    (IF env.tls = None THEN <<"t", "r", "u", "e">> ELSE PyLower(env.tls[1]))
        # <<"f", "a", "l", "s", "e">>

\* build_email_message: None when it raises ValueError
build_email_message(to_address, subject, body, sender) ==
    LET sender_address == IF Falsy(sender) THEN mailEnv.from ELSE sender
    IN  IF Falsy(sender_address) THEN None
        ELSE Some([From |-> sender_address[1], To |-> to_address,
                   Subject |-> subject, body |-> body])

IdleMail ==
    [pc |-> "idle", to |-> << >>, subject |-> << >>, message |-> << >>,
     from_address |-> << >>, msg |-> None, resp |-> NoResponse]

MailFinish(resp) == mail' = [mail EXCEPT !.pc = "done", !.resp = resp]

\* the exception left the handler: the framework answers 500
UnhandledFault == Response(500, "Internal Server Error", None)

\* a request reaches the handler; the fields are those of the JSON payload
SendEmailReceive(payload) ==
    /\ mail.pc \in {"idle", "done"}
    /\ smtpConns < MaxMails
    /\ mail' = [pc |-> "recv", to |-> payload.to, subject |-> payload.subject,
                message |-> payload.message, from_address |-> payload.from_address,
                msg |-> None, resp |-> NoResponse]
    /\ UNCHANGED <<authVars, docVars, mailEnv, smtpConns, outbox>>

\* payload parsing, validation, build_email_message and the part of
\* send_email_via_smtp that reads the environment
SendEmailStart ==
    /\ mail.pc = "recv"
    /\ LET to_address == Strip(mail.to)
           subject == Strip(IF mail.subject = << >> THEN DefaultSubject ELSE mail.subject)
           message_body == Strip(mail.message)
           sender_override == IF Strip(mail.from_address) = << >> THEN None
                              ELSE Some(Strip(mail.from_address))
           msg == build_email_message(to_address,
                      IF subject = << >> THEN DefaultSubject ELSE subject,
                      message_body, sender_override)
       IN  IF to_address = << >> \/ message_body = << >>
           THEN MailFinish(Response(400,
                    "The 'to' email and 'message' fields are required.", None))
           ELSE IF msg = None
           THEN MailFinish(Response(400,
                    "Missing MAIL_FROM_ADDRESS environment variable.", None))
           ELSE IF PortInvalid(mailEnv)
           THEN MailFinish(Response(400, "invalid literal for int() with base 10", None))
           ELSE IF Falsy(mailEnv.host) \/ Falsy(mailEnv.user) \/ Falsy(mailEnv.password)
           THEN MailFinish(Response(400,
                    "SMTP configuration is incomplete. Please set MAIL_SMTP_HOST, MAIL_SMTP_USERNAME, and MAIL_SMTP_PASSWORD.",
                    None))
           ELSE mail' = [mail EXCEPT !.pc = "connect", !.msg = msg]
    /\ UNCHANGED <<authVars, docVars, mailEnv, smtpConns, outbox>>

\* what a step of the SMTP conversation can do: succeed, raise a subclass of
\* smtplib.SMTPException, or raise another OSError (connection refused, name
\* not resolved, timeout, TLS failure)
SmtpOutcomes == {"ok", "SMTPException", "OSError"}

\* the except clauses of send_email on a failed step
SmtpFailed(outcome) ==
    IF outcome = "SMTPException"
    THEN MailFinish(Response(502, "Unable to send email", None))
    ELSE MailFinish(UnhandledFault)

\* smtplib.SMTP(smtp_host, smtp_port, timeout=30)
SmtpConnect(outcome) ==
    /\ mail.pc = "connect"
    /\ smtpConns' = smtpConns + 1
    /\ IF outcome = "ok"
       THEN mail' = [mail EXCEPT !.pc = IF use_tls(mailEnv) THEN "starttls" ELSE "login"]
       ELSE SmtpFailed(outcome)
    /\ UNCHANGED <<authVars, docVars, mailEnv, outbox>>

\* smtp.starttls()
SmtpStartTls(outcome) ==
    /\ mail.pc = "starttls"
    /\ IF outcome = "ok"
       THEN mail' = [mail EXCEPT !.pc = "login"]
       ELSE SmtpFailed(outcome)
    /\ UNCHANGED <<authVars, docVars, mailEnv, smtpConns, outbox>>

\* smtp.login(smtp_user, smtp_password)
SmtpLogin(outcome) ==
    /\ mail.pc = "login"
    /\ IF outcome = "ok"
       THEN mail' = [mail EXCEPT !.pc = "send"]
       ELSE SmtpFailed(outcome)
    /\ UNCHANGED <<authVars, docVars, mailEnv, smtpConns, outbox>>

\* smtp.send_message(msg) and the 200 response
SmtpSend(outcome) ==
    /\ mail.pc = "send"
    /\ IF outcome = "ok"
       THEN /\ outbox' = Append(outbox, mail.msg[1])
            /\ MailFinish(Response(200, "Email sent successfully.", None))
       ELSE /\ outbox' = outbox
            /\ SmtpFailed(outcome)
    /\ UNCHANGED <<authVars, docVars, mailEnv, smtpConns>>

\* ------------------------------------------------------------------------
\* Inputs
\* ------------------------------------------------------------------------
Admin == <<"A", "d", "m", "i", "n">>

\* users.json: the second entry repeats the email of the first, the third
\* has it in another case
LegacyFile ==
    << LegacyEntry(<<"a">>, Some(generate_password_hash(<<"p">>)), None,
                   Some(<<"b">>), Some(Admin)),
       LegacyEntry(<<"c">>, Some(PlainText(<<"p">>)), Some(<<"n">>),
                   Some(<<"b">>), None),
       LegacyEntry(<<"d">>, None, Some(<< >>), Some(<<"B">>), Some(<< >>)) >>

LegacyFiles == {<< >>, LegacyFile}

\* signup payloads of the single-handler specification
SignupUsernames == {<< >>, <<"a">>, <<"b", " ">>}
SignupPasswords == {<< >>, <<" ">>, <<"p">>}
SignupFullNames == {<<" ">>, <<"n">>}
SignupEmails == {<< >>, <<"b">>, <<" ", "B">>, <<E_ACUTE_UPPER>>}
SignupRoles == {<< >>}

SignupPayloads ==
    [username : SignupUsernames, password : SignupPasswords,
     full_name : SignupFullNames, email : SignupEmails, role : SignupRoles]

\* valid signup payloads of the specification with concurrent handlers
RacePayloads ==
    [username : {<<"a">>, <<"b", " ">>}, password : {<<"p">>},
     full_name : {<<"n">>}, email : {<< >>, <<"b">>, <<"B">>}, role : {<< >>}]

\* payloads of the client specification
ClientSignupPayloads ==
    [username : {<<"a">>, <<"b">>}, password : {<<" ">>},
     full_name : {<<"n">>}, email : {<< >>}, role : {<<"r", " ">>}]

LoginIdentifiers == {<< >>, <<"a">>, <<" ", "b">>, <<"B">>, <<"c">>}
LoginPasswords == {<< >>, <<" ">>, <<"p">>}

LoginPayloads == [username : LoginIdentifiers, password : LoginPasswords]

UploadFiles ==
    {None, Some(<< >>), Some(<<"r", ".", "p", "d", "f">>),
     Some(<<"r", ".", "P", "D", "F">>), Some(<<".", ".", "/", "r", ".", "p", "d", "f">>),
     Some(<<"a", " ", "b", ".", "p", "n", "g">>), Some(<<"r", ".", "e", "x", "e">>),
     Some(<<"r">>)}

Departments == {None, Some(<<"H", "R">>)}

\* no mail variable is set
NoMailEnv == MailEnv(None, None, None, None, None, None)

\* every variable set, TLS on by default
FullMailEnv ==
    MailEnv(Some(<<"f", "0">>), Some(<<"h">>), Some(<<"2", "5">>), Some(<<"u">>),
            Some(<<"p">>), None)

MailEnvs ==
    {NoMailEnv,
     FullMailEnv,
     [FullMailEnv EXCEPT !.tls = Some(<<"F", "a", "l", "s", "e">>)],
     [FullMailEnv EXCEPT !.from = None, !.port = None],
     [FullMailEnv EXCEPT !.host = None],
     [FullMailEnv EXCEPT !.user = Some(<< >>)],
     [FullMailEnv EXCEPT !.password = None],
     [FullMailEnv EXCEPT !.port = Some(<<"x">>)]}

MailPayloads ==
    [to : {<< >>, <<"t", " ">>}, subject : {<< >>, <<" ">>, <<"s">>},
     message : {<<" ">>, <<"m">>}, from_address : {<< >>, <<"f">>}]

\* ------------------------------------------------------------------------
\* Specifications
\* ------------------------------------------------------------------------
Init ==
    /\ users = {}
    /\ dbLock = FALSE
    /\ txRows = {}
    /\ legacy \in LegacyFiles
    /\ migPc = "start"
    /\ migIdx = 1
    /\ sg = [r \in Slots |-> IdleSignup]
    /\ session = None
    /\ cl = IdleClient
    /\ docs = {}
    /\ files = {}
    /\ docResp = DocResponse("", 0, 0, "")
    /\ mailEnv = NoMailEnv
    /\ mail = IdleMail
    /\ smtpConns = 0
    /\ outbox = << >>

Migrate ==
    \/ MigrateStart
    \/ MigrateInsert
    \/ MigrateCommit
    \/ Restart

\* the account service with concurrent signup handlers and the import
Next ==
    \/ Migrate
    \/ \E r \in Slots, payload \in RacePayloads : SignupReceive(r, payload)
    \/ \E r \in Slots : SignupStart(r)
    \/ \E r \in Slots : SignupCheckEmail(r)
    \/ \E r \in Slots : SignupCreate(r)

Spec == Init /\ [][Next]_vars

\* one signup handler at a time, any payload, beside the import
NextSignup ==
    \/ Migrate
    \/ \E payload \in SignupPayloads : SignupReceive(1, payload)
    \/ SignupStart(1)
    \/ SignupCheckEmail(1)
    \/ SignupCreate(1)

SpecSignup == Init /\ [][NextSignup]_vars

\* one client's login, logout and session checks, beside signups, the
\* import and out-of-band removals
NextClient ==
    \/ Migrate
    \/ \E payload \in ClientSignupPayloads : SignupReceive(1, payload)
    \/ SignupStart(1)
    \/ SignupCheckEmail(1)
    \/ SignupCreate(1)
    \/ \E payload \in LoginPayloads : ClientRequest("login", payload)
    \/ ClientRequest("logout", NoPayload)
    \/ ClientRequest("session", NoPayload)
    \/ LoginStart
    \/ LoginLookupEmail
    \/ LoginPayload
    \/ Logout
    \/ SessionInfo
    \/ OutOfBandDelete

SpecClient == Init /\ [][NextClient]_vars

\* the document manager
NextDocs ==
    \/ \E file \in UploadFiles, department \in Departments : Upload(file, department)
    \/ \E doc_id \in 1..(MaxDocs + 1), removeFails \in BOOLEAN : Delete(doc_id, removeFails)
    \/ ExternalRemove

SpecDocs == Init /\ [][NextDocs]_vars

\* the mail gateway, in a process with any of the environments
InitMail ==
    /\ users = {}
    /\ dbLock = FALSE
    /\ txRows = {}
    /\ legacy = << >>
    /\ migPc = "start"
    /\ migIdx = 1
    /\ sg = [r \in Slots |-> IdleSignup]
    /\ session = None
    /\ cl = IdleClient
    /\ docs = {}
    /\ files = {}
    /\ docResp = DocResponse("", 0, 0, "")
    /\ mailEnv \in MailEnvs
    /\ mail = IdleMail
    /\ smtpConns = 0
    /\ outbox = << >>

NextMail ==
    \/ \E payload \in MailPayloads : SendEmailReceive(payload)
    \/ SendEmailStart
    \/ \E outcome \in SmtpOutcomes : SmtpConnect(outcome)
    \/ \E outcome \in SmtpOutcomes : SmtpStartTls(outcome)
    \/ \E outcome \in SmtpOutcomes : SmtpLogin(outcome)
    \/ \E outcome \in SmtpOutcomes : SmtpSend(outcome)

SpecMail == InitMail /\ [][NextMail]_vars

\* ------------------------------------------------------------------------
\* Notions the properties are stated with
\* ------------------------------------------------------------------------
CasePairs ==
    {<<"A", "a">>, <<"B", "b">>, <<"D", "d">>, <<"F", "f">>, <<"P", "p">>,
     <<E_ACUTE_UPPER, E_ACUTE_LOWER>>}

SameLetter(c, d) == c = d \/ <<c, d>> \in CasePairs \/ <<d, c>> \in CasePairs

EqualIgnoringCase(s, t) ==
    Len(s) = Len(t) /\ \A i \in 1..Len(s) : SameLetter(s[i], t[i])

IsBlank(s) == \A i \in 1..Len(s) : s[i] = " "

\* ------------------------------------------------------------------------
\* Properties of the users table under concurrent signups and the import
\* ------------------------------------------------------------------------

\* C1 (as claimed): no two rows of users have the same username, and no two
\* rows have non-null emails that are equal ignoring case.
C1_UsersUnique ==
    \A u, v \in users :
        u # v =>
            /\ u.username # v.username
            /\ (u.email # None /\ v.email # None)
                   => ~EqualIgnoringCase(u.email[1], v.email[1])

\* two requests claim the same username or the same email
SameKey(a, b) ==
    \/ a.username = b.username
    \/ a.email # None /\ a.email = b.email

KeyFree(req) ==
    \A u \in users :
        /\ u.username # req.username
        /\ req.email = None \/ u.email # req.email

CreationFailure == Response(500, "Unable to create account. Please try again.", None)

C2_First(r, q) ==
    (/\ sg[r].pc = "create" /\ sg[q].pc = "create" /\ SameKey(sg[r], sg[q])
     /\ sg'[r].pc = "done" /\ KeyFree(sg[r]))
    => /\ sg'[r].resp.status = 201
       /\ Cardinality(users') = Cardinality(users) + 1
       /\ \E u \in users' \ users : u.username = sg[r].username

C2_Later(r, q) ==
    (/\ sg[r].pc = "create" /\ sg[q].pc = "done" /\ sg[q].resp.status = 201
     /\ SameKey(sg[r], sg[q]) /\ sg'[r].pc = "done")
    => /\ sg'[r].resp = CreationFailure
       /\ users' = users

C2_OneRow(r, q) ==
    (sg[r].pc = "done" /\ sg[q].pc = "done" /\ SameKey(sg[r], sg[q]))
    => ~(sg[r].resp.status = 201 /\ sg[q].resp.status = 201)

\* C2: of two signups with the same username or the same email that both
\* passed the existence checks before either inserted, the first to insert
\* gets 201 and adds one row, the later one gets the generic 500 response and
\* leaves the table unchanged, and never both get 201.
C2_RaceResolved ==
    /\ [][\A r, q \in Slots : r # q => C2_First(r, q) /\ C2_Later(r, q)]_vars
    /\ [](\A r, q \in Slots : r # q => C2_OneRow(r, q))

C2_Witness ==
    /\ legacy = << >>
    /\ \E r, q \in Slots :
        /\ r # q
        /\ sg[q].pc = "done" /\ sg[q].resp.status = 201
        /\ sg[r].pc = "done" /\ sg[r].resp = CreationFailure
        /\ sg[r].username # sg[q].username
        /\ sg[r].email # None /\ sg[r].email = sg[q].email
        /\ Cardinality(users) = 1

\* the row the import makes of an entry of users.json
LegacyRow(e) ==
    [username |-> e.username,
     password |-> IF e.password = None THEN PlainText(<< >>) ELSE e.password[1],
     full_name |-> IF e.full_name = None \/ e.full_name = Some(<< >>)
                   THEN e.username ELSE e.full_name[1],
     email |-> e.email,
     role |-> IF e.role = None \/ e.role = Some(<< >>) THEN Viewer ELSE e.role[1]]

\* the table after the entries i.. of file are inserted in turn, an entry
\* that repeats a username or an email of the table being skipped
RECURSIVE ImportedFrom(_, _, _)
ImportedFrom(table, file, i) ==
    IF i > Len(file) THEN table
    ELSE IF \E u \in table :
                \/ u.username = file[i].username
                \/ file[i].email # None /\ u.email = file[i].email
    THEN ImportedFrom(table, file, i + 1)
    ELSE ImportedFrom(table \cup {LegacyRow(file[i])}, file, i + 1)

\* C9: an import that finds a row in the table ends without changing the
\* table; an import that finds the table empty inserts every entry in turn,
\* skipping the entries that violate a uniqueness constraint.
C9_LegacyImport ==
    /\ [][(migPc = "start" /\ users # {} /\ migPc' # "start")
              => (migPc' = "done" /\ users' = users /\ txRows' = txRows)]_vars
    /\ [][(migPc = "start" /\ users = {} /\ legacy # << >> /\ migPc' # "start")
              => migPc' = "insert"]_vars
    /\ [][(migPc = "insert" /\ migPc' # "insert")
              => (migPc' = "done" /\ users' = ImportedFrom(users, legacy, 1))]_vars

\* a first import skipped entry "c" and went on to insert "d"; a later start
\* found the table non-empty and left it alone
C9_Witness ==
    /\ migPc = "done" /\ migIdx = 1
    /\ legacy = LegacyFile
    /\ \E u \in users : u.username = <<"d">>
    /\ \A u \in users : u.username # <<"c">>

\* ------------------------------------------------------------------------
\* Properties of one signup
\* ------------------------------------------------------------------------
ValidationFailure ==
    Response(400, "Username, full name and password are required.", None)

\* the handler in slot r answers the request it received
SignupAnswers(r) == sg[r].pc = "recv" /\ sg'[r].pc # "recv"

\* C3 (as claimed): a signup whose username, password or full name is empty
\* after trimming gets 400 and inserts no row.
C3_BlankFieldRejected ==
    [][\A r \in Slots :
          (/\ SignupAnswers(r)
           /\ \/ IsBlank(sg[r].username)
              \/ IsBlank(sg[r].password)
              \/ IsBlank(sg[r].full_name))
          => /\ sg'[r].pc = "done"
             /\ sg'[r].resp = ValidationFailure
             /\ users' = users]_vars

\* C3 (amended): a signup whose username or full name is empty after
\* trimming, or whose password is empty as sent, gets 400 and inserts no row,
\* whatever the other fields are.
C3_EmptyFieldRejected ==
    [][\A r \in Slots :
          (/\ SignupAnswers(r)
           /\ \/ IsBlank(sg[r].username)
              \/ sg[r].password = << >>
              \/ IsBlank(sg[r].full_name))
          => /\ sg'[r].pc = "done"
             /\ sg'[r].resp = ValidationFailure
             /\ users' = users]_vars

\* a 400 for a request whose username and email are both taken
C3_Witness ==
    \E r \in Slots :
        /\ sg[r].pc = "done"
        /\ sg[r].resp = ValidationFailure
        /\ sg[r].full_name = << >>
        /\ \E u \in users : u.username = sg[r].username
        /\ \E u \in users : sg[r].email # None /\ u.email = sg[r].email

ValidFields(req) ==
    ~IsBlank(req.username) /\ req.password # << >> /\ ~IsBlank(req.full_name)

C4_UsernameTaken(r) ==
    (/\ SignupAnswers(r)
     /\ ValidFields(sg[r])
     /\ \E u \in users : u.username = Strip(sg[r].username))
    => /\ sg'[r].pc = "done"
       /\ sg'[r].resp.status = 409
       /\ users' = users

C4_EmailTaken(r) ==
    (/\ sg[r].pc = "chkEmail" /\ sg'[r].pc # "chkEmail"
     /\ sg[r].email # None
     /\ \E u \in users :
            u.email # None /\ EqualIgnoringCase(u.email[1], sg[r].email[1]))
    => /\ sg'[r].pc = "done"
       /\ sg'[r].resp.status = 409
       /\ users' = users

C4_Created(r) ==
    (sg[r].pc # "done" /\ sg'[r].pc = "done" /\ sg'[r].resp.status = 201)
    => /\ Cardinality(users') = Cardinality(users) + 1
       /\ \A u \in users :
            /\ u.username # sg[r].username
            /\ (u.email # None /\ sg[r].email # None)
                   => ~EqualIgnoringCase(u.email[1], sg[r].email[1])

\* C4 (as claimed): a signup with valid fields gets 409 and leaves the table
\* unchanged when its check finds a row with that username, or a row whose
\* email equals the supplied one ignoring case; it gets 201 and adds one row
\* only when there is neither.
C4_ConflictOrCreated ==
    [][\A r \in Slots : C4_UsernameTaken(r) /\ C4_EmailTaken(r) /\ C4_Created(r)]_vars

\* ------------------------------------------------------------------------
\* Properties of login, logout and the session check
\* ------------------------------------------------------------------------
Unauthorized == Response(401, "Invalid username or password.", None)

ByUsername(ident) == {u \in users : u.username = ident}

ByEmail(ident) ==
    {u \in users : u.email # None /\ EqualIgnoringCase(u.email[1], ident)}

Verifies(u, password) == u.password = [hashed |-> TRUE, text |-> password]

\* the steps of the login handler that look a user up
LooksUpUsername == cl.pc = "login" /\ cl'.pc # "login"
LooksUpEmail == cl.pc = "lookupEmail" /\ cl'.pc # "lookupEmail"

NonEmptyLogin == Strip(cl.ident) # << >> /\ cl.password # << >>

\* the step of login that accepts the credentials
LoginAccepted == cl.pc \in {"login", "lookupEmail"} /\ cl'.pc = "payload"

\* C5: a login with non-empty fields whose identifier matches no user, and
\* one whose identifier matches a user with another password, get the same
\* 401 response with the same message, and leave the session as it was.
C5_SameUnauthorized ==
    /\ [][(/\ LooksUpUsername /\ NonEmptyLogin
           /\ ByUsername(Strip(cl.ident)) # {}
           /\ \A u \in ByUsername(Strip(cl.ident)) : ~Verifies(u, cl.password))
          => (cl'.pc = "idle" /\ cl'.resp = Unauthorized /\ session' = session)]_vars
    /\ [][(/\ LooksUpEmail
           /\ \A u \in ByEmail(cl.ident) : ~Verifies(u, cl.password))
          => (cl'.pc = "idle" /\ cl'.resp = Unauthorized /\ session' = session)]_vars
    /\ [](cl.resp.status = 401 => cl.resp = Unauthorized)

\* a wrong password for an existing username, sent with a session open
C5_Witness ==
    /\ cl.op = "login" /\ cl.pc = "idle"
    /\ cl.resp = Unauthorized
    /\ session # None
    /\ \E u \in users : u.username = cl.ident /\ ~Verifies(u, cl.password)

\* C6: the identifier is looked up as a username first, and as an email
\* (ignoring case) only when no row has that username; the password is
\* checked against the row found, and an accepted login binds the session
\* to the username stored in that row.
C6_UsernameFirst ==
    /\ [][(LooksUpUsername /\ NonEmptyLogin)
          => \/ /\ ByUsername(Strip(cl.ident)) = {}
                /\ cl'.pc = "lookupEmail"
                /\ session' = session
             \/ \E a \in ByUsername(Strip(cl.ident)) :
                  IF Verifies(a, cl.password)
                  THEN cl'.pc = "payload" /\ session' = Some(a.username)
                  ELSE cl'.pc = "idle" /\ cl'.resp.status = 401
                       /\ session' = session]_vars
    /\ [][(LooksUpEmail /\ cl'.pc = "payload")
          => \E b \in ByEmail(cl.ident) :
                 Verifies(b, cl.password) /\ session' = Some(b.username)]_vars
    /\ [][(session' # session /\ session' # None)
          => (LoginAccepted /\ \E u \in users : session' = Some(u.username))]_vars

\* "b" is the username of one row and the email of another: the login was
\* accepted for the row named "b"
C6_Witness ==
    /\ cl.op = "login" /\ cl.pc = "idle" /\ cl.ident = <<"b">>
    /\ cl.resp.status = 200
    /\ session = Some(<<"b">>)
    /\ \E u \in users : u.username # <<"b">> /\ u.email = Some(<<"b">>)
                          /\ ~Verifies(u, cl.password)

\* the step that builds a session payload, and the payload it returns
ReturnsPayload == cl.pc \in {"session", "payload"} /\ cl'.pc = "idle"
ReturnedPayload == cl'.resp.data[1]

\* C7: a session payload says authenticated only when a row with the
\* session's username exists at that moment, and then carries that row's
\* name, role and email; when the row is gone the payload says not
\* authenticated and the session is cleared, and a cleared session stays
\* cleared until a login is accepted.
C7_FreshPayload ==
    /\ [][(ReturnsPayload /\ ReturnedPayload.authenticated)
          => /\ session # None
             /\ session' = session
             /\ \E u \in users :
                  /\ u.username = session[1]
                  /\ ReturnedPayload.username = Some(u.username)
                  /\ ReturnedPayload.display_name = Some(u.full_name)
                  /\ ReturnedPayload.role = Some(u.role)
                  /\ ReturnedPayload.email = u.email]_vars
    /\ [][(ReturnsPayload /\ (session = None \/ ByUsername(session[1]) = {}))
          => (~ReturnedPayload.authenticated /\ session' = None)]_vars
    /\ [][(session = None /\ session' # None) => LoginAccepted]_vars

\* the imported row "a" was removed and signed up again; a session check
\* answered not authenticated and the session is cleared
C7_Witness ==
    /\ legacy = LegacyFile /\ migIdx > Len(legacy)
    /\ cl.op = "session" /\ cl.pc = "idle"
    /\ ~cl.resp.data[1].authenticated
    /\ session = None
    /\ \E u \in users : u.username = <<"a">> /\ u.role = <<"r">>

\* C8: logout answers success and clears the session whether or not there
\* was one; a session check answers authenticated only with a session, and
\* only an accepted login opens a session.
C8_LogoutClears ==
    /\ [][(cl.pc = "logout" /\ cl'.pc # "logout")
          => /\ cl'.pc = "idle"
             /\ cl'.resp = Response(200, "success", None)
             /\ session' = None]_vars
    /\ [][(cl.pc = "session" /\ cl'.pc # "session" /\ session = None)
          => (cl'.resp.status = 200 /\ ~ReturnedPayload.authenticated)]_vars
    /\ [][(session' # None /\ session' # session) => LoginAccepted]_vars

\* after a logout with users in the table
C8_Witness ==
    /\ cl.op = "logout" /\ cl.pc = "idle"
    /\ cl.resp = Response(200, "success", None)
    /\ session = None
    /\ \E u \in users : Verifies(u, <<"p">>)

\* ------------------------------------------------------------------------
\* Properties of the document manager
\* ------------------------------------------------------------------------
\* the delete handler answers
DeleteAnswers == docResp' # docResp /\ docResp'.op = "delete"

\* C10 (as claimed): delete of an id without a row answers 404 and changes
\* neither the table nor the files; delete of an existing id removes its
\* row and does not fail, whether or not the file could be removed.
C10_DeleteAlwaysRemovesRow ==
    [][DeleteAnswers
       => IF \A d \in docs : d.id # docResp'.id
          THEN docResp'.status = 404 /\ docs' = docs /\ files' = files
          ELSE /\ docResp'.status = 302
               /\ docs' = {d \in docs : d.id # docResp'.id}]_vars

\* ------------------------------------------------------------------------
\* Properties of send-email
\* ------------------------------------------------------------------------

\* the handler answers the send-email request in this step
MailAnswers == mail.pc \in {"recv", "connect", "starttls", "login", "send"} /\ mail'.pc = "done"

\* no SMTP connection is opened and nothing is transmitted in this step
NoSmtpAttempt == smtpConns' = smtpConns /\ outbox' = outbox

\* the request has no recipient or no body
MailFieldsMissing == IsBlank(mail.to) \/ IsBlank(mail.message)

\* neither the request nor the environment names a sender
SenderUnresolvable == IsBlank(mail.from_address) /\ Falsy(mailEnv.from)

\* host, user or password of the relay is missing
SmtpSettingsMissing == Falsy(mailEnv.host) \/ Falsy(mailEnv.user) \/ Falsy(mailEnv.password)

\* the step is one of the SMTP conversation
InTransport == mail.pc \in {"connect", "starttls", "login", "send"}

\* C11 (as claimed): every answer of send-email is one of the documented
\* responses 200, 400 and 502, never an unhandled fault: a request without
\* recipient or body is answered 400 with no SMTP attempt; a request whose
\* sender cannot be resolved, or whose relay host, user or password is
\* missing, is answered 400 with no SMTP attempt; a failure while connecting,
\* upgrading to TLS, authenticating or sending is answered 502; and 200 is
\* answered exactly when the message was transmitted, once.
C11_EveryOutcomeDocumented ==
    [][/\ MailAnswers => mail'.resp.status \in {200, 400, 502}
       /\ (mail.pc = "recv" /\ MailFieldsMissing)
            => MailAnswers /\ mail'.resp.status = 400 /\ NoSmtpAttempt
       /\ (mail.pc = "recv" /\ ~MailFieldsMissing
                            /\ (SenderUnresolvable \/ SmtpSettingsMissing))
            => MailAnswers /\ mail'.resp.status = 400 /\ NoSmtpAttempt
       /\ (InTransport /\ MailAnswers /\ outbox' = outbox)
            => mail'.resp.status = 502
       /\ (MailAnswers /\ mail'.resp.status = 200)
            => outbox' = Append(outbox, mail.msg[1])
       /\ outbox' # outbox
            => /\ MailAnswers /\ mail'.resp.status = 200
               /\ Len(outbox') = Len(outbox) + 1]_vars

====
